---------------------------- MODULE Spec2Model ----------------------------
(* A model of agent-overlay's OverlayManager (src/overlay_manager/core.py)  *)
(* and of its command-line entry point (src/overlay_manager/cli.py).        *)
(*                                                                          *)
(* The file system is modelled explicitly: a set of directories, a map     *)
(* from file paths to contents, and the table of mounted overlays.  A path  *)
(* is the sequence of its components; a task name is the sequence of the    *)
(* components of the name string ("fix_bug" is <<"fix_bug">>).              *)
EXTENDS Integers, Sequences, FiniteSets, TLC

(***************************************************************************)
(* Bounds                                                                  *)
(***************************************************************************)
NumNames == 2

NamePool == <<"test_task", "dup_task", "ghost", "my-bug-fix">>

\* task names the callers use: plain identifiers
TaskNames == {<<NamePool[i]>> : i \in 1..NumNames}

\* the files of the base directory and of the views
FileNames == {"file.txt"}

\* file contents; "" is the empty file
Contents == {"", "hello world"}
Absent == "<absent>"
Whiteout == "<whiteout>"

(***************************************************************************)
(* Paths                                                                   *)
(***************************************************************************)
HomeDir == <<"home">>
BaseDir == <<"repo">>

IsPrefix(p, q) == Len(p) <= Len(q) /\ SubSeq(q, 1, Len(p)) = p

\* os.path.join(a, b): an absolute b (leading "/") replaces a
Join(a, b) == IF b # <<>> /\ b[1] = "/" THEN Tail(b) ELSE a \o b

Ancestors(p) == {SubSeq(p, 1, k) : k \in 0..Len(p)}

\* OverlayManager.__init__ with tasks_root omitted (what the CLI does)
NewManager(base_dir) ==
    [base_dir |-> base_dir, tasks_root |-> Join(HomeDir, <<".agent_tasks">>)]

Manager == NewManager(BaseDir)

\* mutant: one upper directory for all tasks
_get_task_paths_shared_upper(self, task_name) ==
    LET task_dir == Join(self.tasks_root, task_name)
    IN [root   |-> task_dir,
        upper  |-> Join(self.tasks_root, <<"upper">>),
        work   |-> Join(task_dir, <<"work">>),
        merged |-> Join(task_dir, <<"merged">>)]

_get_task_paths(self, task_name) ==
    LET task_dir == Join(self.tasks_root, task_name)
    IN [root   |-> task_dir,
        upper  |-> Join(task_dir, <<"upper">>),
        work   |-> Join(task_dir, <<"work">>),
        merged |-> Join(task_dir, <<"merged">>)]

(***************************************************************************)
(* State                                                                   *)
(***************************************************************************)
VARIABLES
    dirs,            \* directories of the underlying file system
    files,           \* file path -> content, of the underlying file system
    mounts,          \* mount point -> [lowerdir, upperdir, workdir]
    active,          \* history: names started and not yet aborted
    last,            \* the last call and its outcome
    calls            \* caller -> the call it is in and the statement it is at

fs == [dirs |-> dirs, files |-> files, mounts |-> mounts]
vars == <<dirs, files, mounts, active, last, calls>>

\* what check_prerequisites finds when it looks: shutil.which finds the
\* fuse-overlayfs binary, /dev/fuse exists
Envs == [fuse_overlayfs : BOOLEAN, dev_fuse : BOOLEAN]
EnvOk == [fuse_overlayfs |-> TRUE, dev_fuse |-> TRUE]

\* how the external commands of a call end: fuse-overlayfs, fusermount -u
\* and fusermount -uz exit with 0
Exts == [mount_ok : BOOLEAN, u_ok : BOOLEAN, uz_ok : BOOLEAN]
ExtOk == [mount_ok |-> TRUE, u_ok |-> TRUE, uz_ok |-> TRUE]


(***************************************************************************)
(* File-system primitives, on a file-system value                          *)
(*   f = [dirs, files, mounts]                                             *)
(***************************************************************************)
Restrict(g, S) == [x \in S |-> g[x]]

\* the mount points at or above path p
MountsOver(f, p) == {m \in DOMAIN f.mounts : IsPrefix(m, p)}

\* fuse-overlayfs -o lowerdir=LOW,upperdir=UP,workdir=WORK MERGED: the
\* path below the mount point is looked up in UP first, then in LOW; a
\* whiteout in UP hides the entry of LOW
OverlayRead(f, m, rest) ==
    LET u == f.mounts[m].upperdir \o rest
        l == f.mounts[m].lowerdir \o rest
    IN  IF u \in DOMAIN f.files
        THEN (IF f.files[u] = Whiteout THEN Absent ELSE f.files[u])
        ELSE IF l \in DOMAIN f.files /\ f.files[l] # Whiteout
             THEN f.files[l] ELSE Absent

OverlayIsDir(f, m, rest) ==
    \/ rest = <<>>
    \/ f.mounts[m].upperdir \o rest \in f.dirs
    \/ f.mounts[m].lowerdir \o rest \in f.dirs

\* the content of the file at path p, Absent if there is no file there
ReadFile(f, p) ==
    IF MountsOver(f, p) # {}
    THEN LET m == CHOOSE x \in MountsOver(f, p) :
                      \A y \in MountsOver(f, p) : Len(y) <= Len(x)
         IN OverlayRead(f, m, SubSeq(p, Len(m) + 1, Len(p)))
    ELSE IF p \in DOMAIN f.files /\ f.files[p] # Whiteout
         THEN f.files[p] ELSE Absent

isdir(f, p) ==
    IF MountsOver(f, p) # {}
    THEN LET m == CHOOSE x \in MountsOver(f, p) :
                      \A y \in MountsOver(f, p) : Len(y) <= Len(x)
         IN OverlayIsDir(f, m, SubSeq(p, Len(m) + 1, Len(p)))
    ELSE p \in f.dirs

\* os.path.exists
exists(f, p) == isdir(f, p) \/ ReadFile(f, p) # Absent

\* os.path.ismount
ismount(f, p) == p \in DOMAIN f.mounts

\* os.makedirs(p): p and every missing ancestor
makedirs(f, p) == [f EXCEPT !.dirs = @ \cup Ancestors(p)]

\* mutant: the entries below p are removed, p itself stays
rmtree_keep_root(f, p) ==
    [f EXCEPT !.dirs  = {d \in @ : ~IsPrefix(p, d) \/ d = p},
              !.files = Restrict(@, {q \in DOMAIN @ : ~IsPrefix(p, q)})]

\* shutil.rmtree(p): the whole tree below p, p included
rmtree(f, p) ==
    [f EXCEPT !.dirs  = {d \in @ : ~IsPrefix(p, d)},
              !.files = Restrict(@, {q \in DOMAIN @ : ~IsPrefix(p, q)})]

\* os.listdir(p): the names of the entries directly below p
listdir(f, p) ==
    {q[Len(p) + 1] : q \in {r \in f.dirs \cup DOMAIN f.files :
                               IsPrefix(p, r) /\ Len(r) > Len(p)}}

\* mutant: the overlay is mounted on the upper directory
fuse_overlayfs_cmd_on_upper(self, paths) ==
    [mountpoint |-> paths.upper,
     lowerdir   |-> self.base_dir,
     upperdir   |-> paths.upper,
     workdir    |-> paths.work]

\* the command line of start_task: where the overlay is mounted and on what
fuse_overlayfs_cmd(self, paths) ==
    [mountpoint |-> paths.merged,
     lowerdir   |-> self.base_dir,
     upperdir   |-> paths.upper,
     workdir    |-> paths.work]

\* a successful run of that command
mount_overlay(f, cmd) ==
    [f EXCEPT !.mounts = (cmd.mountpoint :>
                            [lowerdir |-> cmd.lowerdir,
                             upperdir |-> cmd.upperdir,
                             workdir  |-> cmd.workdir]) @@ @]

\* a successful fusermount -u / -uz
fusermount_u(f, p) ==
    [f EXCEPT !.mounts = Restrict(@, DOMAIN @ \ {p})]

(***************************************************************************)
(* Outcomes of a call: the new file system, the exception raised ("none"   *)
(* when the call returns), its message, and the value returned             *)
(***************************************************************************)
None == "None"
Returns(f, v) == [fs |-> f, exc |-> "none", msg |-> "", ret |-> v]
Raises(f, e, m) == [fs |-> f, exc |-> e, msg |-> m, ret |-> None]

\* mutant: /dev/fuse is not looked for
check_prerequisites_binary_only(e) ==
    IF ~e.fuse_overlayfs THEN "'fuse-overlayfs' not found"
    ELSE ""

\* OverlayManager.check_prerequisites: the message of the RuntimeError it
\* raises, "" when it returns
check_prerequisites(e) ==
    IF ~e.fuse_overlayfs THEN "'fuse-overlayfs' not found"
    ELSE IF ~e.dev_fuse THEN "/dev/fuse not found"
    ELSE ""

\* mutant: no check for an existing task
start_task_no_exists_check(self, task_name, f, e, mount_ok) ==
    LET paths == _get_task_paths(self, task_name)
        made  == makedirs(makedirs(makedirs(f, paths.upper), paths.work),
                          paths.merged)
    IN  IF check_prerequisites(e) # ""
        THEN Raises(f, "RuntimeError", check_prerequisites(e))
        ELSE IF mount_ok
        THEN Returns(mount_overlay(made, fuse_overlayfs_cmd(self, paths)),
                     paths.merged)
        ELSE Raises(rmtree(made, paths.root), "RuntimeError",
                    "Failed to mount overlay")

\* mutant: a failed mount leaves the directories behind
start_task_no_cleanup(self, task_name, f, e, mount_ok) ==
    LET paths == _get_task_paths(self, task_name)
        made  == makedirs(makedirs(makedirs(f, paths.upper), paths.work),
                          paths.merged)
    IN  IF check_prerequisites(e) # ""
        THEN Raises(f, "RuntimeError", check_prerequisites(e))
        ELSE IF exists(f, paths.root)
        THEN Raises(f, "ValueError", "already exists")
        ELSE IF mount_ok
        THEN Returns(mount_overlay(made, fuse_overlayfs_cmd(self, paths)),
                     paths.merged)
        ELSE Raises(made, "RuntimeError", "Failed to mount overlay")

\* OverlayManager.start_task; mount_ok: the mount command exits with 0
start_task(self, task_name, f, e, mount_ok) ==
    LET paths == _get_task_paths(self, task_name)
        made  == makedirs(makedirs(makedirs(f, paths.upper), paths.work),
                          paths.merged)
    IN  IF check_prerequisites(e) # ""
        THEN Raises(f, "RuntimeError", check_prerequisites(e))
        ELSE IF exists(f, paths.root)
        THEN Raises(f, "ValueError", "already exists")
        ELSE IF mount_ok
        THEN Returns(mount_overlay(made, fuse_overlayfs_cmd(self, paths)),
                     paths.merged)
        ELSE Raises(rmtree(made, paths.root), "RuntimeError",
                    "Failed to mount overlay")

\* mutant: the failure of fusermount -u is ignored, no lazy unmount
abort_task_ignore_unmount_failure(self, task_name, f, u_ok, uz_ok) ==
    LET paths == _get_task_paths(self, task_name)
        mounted == exists(f, paths.merged) /\ ismount(f, paths.merged)
        unmounted == IF mounted /\ u_ok THEN fusermount_u(f, paths.merged)
                     ELSE f
    IN  IF ~exists(f, paths.root)
        THEN Raises(f, "ValueError", "not found")
        ELSE Returns(rmtree(unmounted, paths.root), TRUE)

\* mutant: aborting a task that does not exist succeeds
abort_task_missing_ok(self, task_name, f, u_ok, uz_ok) ==
    LET paths == _get_task_paths(self, task_name)
        mounted == exists(f, paths.merged) /\ ismount(f, paths.merged)
        unmounted == IF mounted THEN fusermount_u(f, paths.merged) ELSE f
    IN  IF mounted /\ ~u_ok /\ ~uz_ok
        THEN Raises(f, "CalledProcessError", "fusermount -uz")
        ELSE Returns(rmtree(unmounted, paths.root), TRUE)

\* OverlayManager.abort_task; u_ok, uz_ok: fusermount -u, fusermount -uz
\* exit with 0
abort_task(self, task_name, f, u_ok, uz_ok) ==
    LET paths == _get_task_paths(self, task_name)
        mounted == exists(f, paths.merged) /\ ismount(f, paths.merged)
        unmounted == IF mounted THEN fusermount_u(f, paths.merged) ELSE f
    IN  IF ~exists(f, paths.root)
        THEN Raises(f, "ValueError", "not found")
        ELSE IF mounted /\ ~u_ok /\ ~uz_ok
        THEN Raises(f, "CalledProcessError", "fusermount -uz")
        ELSE Returns(rmtree(unmounted, paths.root), TRUE)

\* OverlayManager.list_tasks
list_tasks(self, f) ==
    IF ~exists(f, self.tasks_root) THEN {}
    ELSE listdir(f, self.tasks_root)

\* diff -N: an absent file is compared as an empty one
AsEmpty(c) == IF c = Absent THEN "" ELSE c

\* diff -Nur a b: one entry per file whose content differs
diff_Nur(f, a, b) ==
    {[file |-> g, old |-> AsEmpty(ReadFile(f, a \o <<g>>)),
                  new |-> AsEmpty(ReadFile(f, b \o <<g>>))] :
        g \in {h \in FileNames : AsEmpty(ReadFile(f, a \o <<h>>))
                                   # AsEmpty(ReadFile(f, b \o <<h>>))}}

\* mutant: the base is compared with the upper layer, not the merged view
diff_task_against_upper(self, task_name, f) ==
    LET paths == _get_task_paths(self, task_name)
    IN  IF ~exists(f, paths.root)
        THEN Raises(f, "ValueError", "not found")
        ELSE Returns(f, diff_Nur(f, self.base_dir, paths.upper))

\* OverlayManager.diff_task
diff_task(self, task_name, f) ==
    LET paths == _get_task_paths(self, task_name)
    IN  IF ~exists(f, paths.root)
        THEN Raises(f, "ValueError", "not found")
        ELSE Returns(f, diff_Nur(f, self.base_dir, paths.merged))

\* a write through the merged view: copy-on-write, the file lands in UP
overlay_write(f, m, rest, c) ==
    [f EXCEPT !.files = (f.mounts[m].upperdir \o rest :> c) @@ @]

\* an unlink through the merged view: a whiteout in UP when LOW has the
\* file, otherwise the file of UP is removed
overlay_unlink(f, m, rest) ==
    LET u == f.mounts[m].upperdir \o rest
        l == f.mounts[m].lowerdir \o rest
    IN  IF l \in DOMAIN f.files
        THEN [f EXCEPT !.files = (u :> Whiteout) @@ @]
        ELSE [f EXCEPT !.files = Restrict(@, DOMAIN @ \ {u})]

(***************************************************************************)
(* cli.main                                                                *)
(***************************************************************************)
Commands == {"start", "abort", "diff", "shell", "list", ""}

\* mutant: the error is printed but the process does not exit with 1
ExitStatus_no_exit(exc) == "0"

\* the exit status of the process: sys.exit(1) in the except clause,
\* otherwise main returns
ExitStatus(exc) == IF exc # "none" THEN "1" ELSE "0"

\* the try block of main: the manager's operation for the command
main_dispatch(self, command, name, f, e, mount_ok, u_ok, uz_ok) ==
    CASE command = "start" -> start_task(self, name, f, e, mount_ok)
      [] command = "abort" -> abort_task(self, name, f, u_ok, uz_ok)
      [] command = "diff"  -> diff_task(self, name, f)
      [] command = "shell" -> Raises(f, "AttributeError", "enter_shell")
      [] command = "list"  -> Returns(f, list_tasks(self, f))
      [] OTHER             -> Returns(f, None)

(***************************************************************************)
(* Actions                                                                 *)
(***************************************************************************)
NoMounts == [m \in {} |-> m]
NoCalls == [c \in {} |-> c]
NoPath == <<>>

Call(op, via, name) ==
    [op |-> op, via |-> via, name |-> name, base |-> Manager.base_dir,
     env |-> EnvOk, ext |-> ExtOk, exc |-> "none", msg |-> "",
     path |-> NoPath, out |-> {}, names |-> {}, exit |-> "none"]

\* the state after OverlayManager(base_dir, tasks_root) was constructed
Init ==
    /\ dirs = Ancestors(Manager.tasks_root) \cup Ancestors(Manager.base_dir)
    /\ \E S \in SUBSET FileNames : \E g \in [S -> Contents] :
          files = [q \in {Manager.base_dir \o <<h>> : h \in S}
                     |-> g[q[Len(q)]]]
    /\ mounts = NoMounts
    /\ active = {}
    /\ last = Call("init", "api", <<>>)
    /\ calls = NoCalls

SetFs(f) ==
    /\ dirs' = f.dirs
    /\ files' = f.files
    /\ mounts' = f.mounts

\* the record of a finished call with outcome r
Done(op, via, name, r) ==
    [Call(op, via, name) EXCEPT
        !.exc = r.exc, !.msg = r.msg,
        !.path = IF op = "start" /\ r.exc = "none" THEN r.ret ELSE NoPath,
        !.out = IF op = "diff" /\ r.exc = "none" THEN r.ret ELSE {},
        !.names = IF op = "list" /\ r.exc = "none" THEN r.ret ELSE {},
        !.exit = IF via = "cli" THEN ExitStatus(r.exc) ELSE "none"]

Track(op, name, r) ==
    active' = IF r.exc # "none" THEN active
              ELSE IF op = "start" THEN active \cup {name}
              ELSE IF op = "abort" THEN active \ {name}
              ELSE active

StartTask(name) ==
    \E e \in Envs, mount_ok \in BOOLEAN :
        \E r \in {start_task(Manager, name, fs, e, mount_ok)} :
            /\ SetFs(r.fs)
            /\ last' = [Done("start", "api", name, r) EXCEPT
                            !.env = e, !.ext.mount_ok = mount_ok]
            /\ Track("start", name, r)
            /\ UNCHANGED calls

\* the lazy unmount runs only after the plain one failed
AbortTask(name) ==
    \E u_ok \in BOOLEAN : \E uz_ok \in IF u_ok THEN {TRUE} ELSE BOOLEAN :
        \E r \in {abort_task(Manager, name, fs, u_ok, uz_ok)} :
            /\ SetFs(r.fs)
            /\ last' = [Done("abort", "api", name, r) EXCEPT
                            !.ext.u_ok = u_ok, !.ext.uz_ok = uz_ok]
            /\ Track("abort", name, r)
            /\ UNCHANGED calls

DiffTask(name) ==
    \E r \in {diff_task(Manager, name, fs)} :
        /\ SetFs(r.fs)
        /\ last' = Done("diff", "api", name, r)
        /\ UNCHANGED <<active, calls>>

ListTasks ==
    /\ last' = Done("list", "api", <<>>, Returns(fs, list_tasks(Manager, fs)))
    /\ UNCHANGED <<dirs, files, mounts, active, calls>>

\* one run of the command line in directory base: the manager is built with
\* the default tasks_root (its constructor creates it), then the command runs
Main(command, name, base) ==
    \E e \in IF command = "start" THEN Envs ELSE {EnvOk},
       mount_ok \in IF command = "start" THEN BOOLEAN ELSE {TRUE},
       u_ok \in IF command = "abort" THEN BOOLEAN ELSE {TRUE} :
      \E uz_ok \in IF command = "abort" /\ ~u_ok THEN BOOLEAN ELSE {TRUE} :
        \E manager \in {NewManager(base)} :
        \E r \in {main_dispatch(manager, command, name,
                                makedirs(fs, manager.tasks_root), e,
                                mount_ok, u_ok, uz_ok)} :
            /\ SetFs(r.fs)
            /\ last' = [Done(IF command = "" THEN "help" ELSE command,
                             "cli",
                             IF command \in {"list", ""} THEN <<>> ELSE name,
                             r) EXCEPT
                          !.base = manager.base_dir,
                          !.env = e,
                          !.ext = [mount_ok |-> mount_ok, u_ok |-> u_ok,
                                   uz_ok |-> uz_ok]]
            /\ Track(command, name, r)
            /\ UNCHANGED calls

\* an agent writes a file through a task's merged view
WriteMerged(m, g, c) ==
    /\ m \in DOMAIN mounts
    /\ SetFs(overlay_write(fs, m, <<g>>, c))
    /\ last' = [Call("write", "agent", <<>>) EXCEPT !.path = m]
    /\ UNCHANGED <<active, calls>>

\* an agent removes a file through a task's merged view
UnlinkMerged(m, g) ==
    /\ m \in DOMAIN mounts
    /\ OverlayRead(fs, m, <<g>>) # Absent
    /\ SetFs(overlay_unlink(fs, m, <<g>>))
    /\ last' = [Call("unlink", "agent", <<>>) EXCEPT !.path = m]
    /\ UNCHANGED <<active, calls>>

Next ==
    \/ \E name \in TaskNames : StartTask(name)
    \/ \E name \in TaskNames : AbortTask(name)
    \/ \E name \in TaskNames : DiffTask(name)
    \/ ListTasks
    \/ \E command \in Commands \ {"list", ""}, name \in TaskNames :
          Main(command, name, BaseDir)
    \/ \E command \in {"list", ""} : Main(command, <<>>, BaseDir)
    \/ \E m \in DOMAIN mounts, g \in FileNames, c \in Contents :
          WriteMerged(m, g, c)
    \/ \E m \in DOMAIN mounts, g \in FileNames : UnlinkMerged(m, g)

Spec == Init /\ [][Next]_vars

(***************************************************************************)
(* The operations statement by statement, for callers that run at the same *)
(* time and for task names of any shape.  calls[c] is the call caller c is *)
(* in: the operation, its arguments, the statement it is at (pc), and,     *)
(* once pc = "done", the exception it raised or the path it returned.      *)
(***************************************************************************)
Callers == {"caller1", "caller2"}

\* the name both callers of a race use
RaceName == <<"test_task">>

\* task name strings of any shape: plain names, the empty string, "..",
\* an absolute path
AnyNames ==
    {<<NamePool[1]>>, <<NamePool[2]>>, <<>>, <<"..">>, <<"/", "repo">>}

\* how the kernel resolves a path: ".." steps to the parent
RECURSIVE Resolve(_)
Resolve(p) ==
    IF p = <<>> THEN <<>>
    ELSE LET head == Resolve(SubSeq(p, 1, Len(p) - 1))
         IN  IF p[Len(p)] = ".."
             THEN (IF head = <<>> THEN <<>>
                   ELSE SubSeq(head, 1, Len(head) - 1))
             ELSE Append(head, p[Len(p)])

\* the paths of a call, as the file system sees them
PathsOf(cl) ==
    LET paths == _get_task_paths(cl.self, cl.name)
    IN  [root   |-> Resolve(paths.root),
         upper  |-> Resolve(paths.upper),
         work   |-> Resolve(paths.work),
         merged |-> Resolve(paths.merged)]

NewCall(op, self, name) ==
    [op |-> op, self |-> self, name |-> name, pc |-> "check",
     exc |-> "none", ret |-> NoPath, tried |-> <<>>]

At(cl, pc) == [cl EXCEPT !.pc = pc]
Fail(cl, e) == [cl EXCEPT !.pc = "done", !.exc = e]
Result(f, cl) == [fs |-> f, call |-> cl]

\* the mount points in the tree below p
MountsBelow(f, p) == {m \in DOMAIN f.mounts : IsPrefix(p, m)}

\* the entries directly below directory d
Children(f, d) ==
    {q \in f.dirs \cup DOMAIN f.files : IsPrefix(d, q) /\ Len(q) = Len(d) + 1}

\* the entries rmtree(p) may have removed before it reaches mount point m:
\* the entries beside the path from p to m that hold no mount point
Beside(f, p, m) ==
    {q \in UNION {Children(f, SubSeq(m, 1, k)) : k \in Len(p)..(Len(m) - 1)} :
        ~IsPrefix(q, m) /\ MountsBelow(f, q) = {}}

RemoveAll(f, S) ==
    [f EXCEPT !.dirs  = {d \in @ : \A q \in S : ~IsPrefix(q, d)},
              !.files = Restrict(@, {r \in DOMAIN @ :
                                        \A q \in S : ~IsPrefix(q, r)})]

\* rmtree has unlinked every file the view at m shows
EmptyView(f, m) ==
    LET shown == {g \in FileNames : OverlayRead(f, m, <<g>>) # Absent}
        up == f.mounts[m].upperdir
        lo == f.mounts[m].lowerdir
    IN  [f EXCEPT !.files =
            [q \in (DOMAIN @ \ {up \o <<g>> : g \in shown})
                     \cup {up \o <<g>> : g \in {h \in shown :
                                            lo \o <<h>> \in DOMAIN f.files}}
               |-> IF q \in {up \o <<g>> : g \in shown}
                   THEN Whiteout ELSE @[q]]]

\* shutil.rmtree(p) with its exception.  It walks the tree in the order
\* scandir yields and stops at the first error.  Without a mount point
\* below p the whole tree goes.  With one, rmtree removes the entries it
\* visits before the mount point, descends into the mounted view and
\* unlinks what it shows (when the upper directory is still there), and
\* fails on the rmdir of the mount point itself (EBUSY).
rmtree_outcomes(f, p) ==
    IF ~exists(f, p) THEN {[fs |-> f, exc |-> "FileNotFoundError"]}
    ELSE IF MountsBelow(f, p) = {}
    THEN {[fs |-> rmtree(f, p), exc |-> "none"]}
    ELSE {[fs |-> LET g == RemoveAll(f, S)
                  IN  IF g.mounts[m].upperdir \in g.dirs
                      THEN EmptyView(g, m) ELSE g,
           exc |-> "OSError"] :
             <<m, S>> \in UNION {{m} \X SUBSET Beside(f, p, m) :
                                    m \in MountsBelow(f, p)}}

\* start_task, lines 86-90: prerequisites, then the existence check
start_check(cl, f, e) ==
    IF check_prerequisites(e) # "" THEN Result(f, Fail(cl, "RuntimeError"))
    ELSE IF exists(f, PathsOf(cl).root)
    THEN Result(f, Fail(cl, "ValueError"))
    ELSE Result(f, At(cl, "mk_upper"))

\* start_task, lines 92-94: one os.makedirs; it raises when the leaf exists
start_makedirs(cl, f, dir, next) ==
    IF exists(f, dir) THEN Result(f, Fail(cl, "FileExistsError"))
    ELSE Result(makedirs(f, dir), At(cl, next))

\* start_task, lines 96-105: the mount command; it cannot succeed when one
\* of its directories is gone
start_mount(cl, f, mount_ok) ==
    LET paths == PathsOf(cl)
        cmd == fuse_overlayfs_cmd(cl.self, paths)
    IN  IF mount_ok /\ isdir(f, paths.upper) /\ isdir(f, paths.work)
           /\ isdir(f, paths.merged)
        THEN Result(mount_overlay(f, cmd),
                    [cl EXCEPT !.pc = "done", !.ret = paths.merged])
        ELSE Result(f, At(cl, "cleanup"))

\* start_task, lines 106-108: rmtree of the root, then RuntimeError
start_cleanup(cl, f) ==
    {Result(o.fs, Fail(cl, IF o.exc = "none" THEN "RuntimeError" ELSE o.exc)) :
        o \in rmtree_outcomes(f, PathsOf(cl).root)}

\* abort_task, lines 124-125
abort_check(cl, f) ==
    IF ~exists(f, PathsOf(cl).root) THEN Result(f, Fail(cl, "ValueError"))
    ELSE Result(f, At(cl, "ismount"))

\* abort_task, line 128
abort_ismount(cl, f) ==
    IF exists(f, PathsOf(cl).merged) /\ ismount(f, PathsOf(cl).merged)
    THEN Result(f, At(cl, "fusermount_u"))
    ELSE Result(f, At(cl, "rmtree"))

\* abort_task, lines 129-131: fusermount -u; it fails when nothing is
\* mounted there any more
abort_fusermount_u(cl, f, u_ok) ==
    LET merged == PathsOf(cl).merged
        tried == [cl EXCEPT !.tried = Append(@, "-u")]
    IN  IF u_ok /\ ismount(f, merged)
        THEN Result(fusermount_u(f, merged), At(tried, "rmtree"))
        ELSE Result(f, At(tried, "fusermount_uz"))

\* mutant: a failed lazy unmount is ignored and the removal goes ahead
abort_fusermount_uz_ignore_failure(cl, f, uz_ok) ==
    LET merged == PathsOf(cl).merged
        tried == [cl EXCEPT !.tried = Append(@, "-uz")]
    IN  IF uz_ok /\ ismount(f, merged)
        THEN Result(fusermount_u(f, merged), At(tried, "rmtree"))
        ELSE Result(f, At(tried, "rmtree"))

\* abort_task, lines 132-133: fusermount -uz, its error is not caught
abort_fusermount_uz(cl, f, uz_ok) ==
    LET merged == PathsOf(cl).merged
        tried == [cl EXCEPT !.tried = Append(@, "-uz")]
    IN  IF uz_ok /\ ismount(f, merged)
        THEN Result(fusermount_u(f, merged), At(tried, "rmtree"))
        ELSE Result(f, Fail(tried, "CalledProcessError"))

\* abort_task, lines 135-137
abort_rmtree(cl, f) ==
    {Result(o.fs, IF o.exc = "none" THEN At(cl, "done") ELSE Fail(cl, o.exc)) :
        o \in rmtree_outcomes(f, PathsOf(cl).root)}

\* the next statement of a start_task call
start_statement(cl, f, e, mount_ok) ==
    CASE cl.pc = "check"     -> {start_check(cl, f, e)}
      [] cl.pc = "mk_upper"  ->
            {start_makedirs(cl, f, PathsOf(cl).upper, "mk_work")}
      [] cl.pc = "mk_work"   ->
            {start_makedirs(cl, f, PathsOf(cl).work, "mk_merged")}
      [] cl.pc = "mk_merged" ->
            {start_makedirs(cl, f, PathsOf(cl).merged, "mount")}
      [] cl.pc = "mount"     -> {start_mount(cl, f, mount_ok)}
      [] cl.pc = "cleanup"   -> start_cleanup(cl, f)

\* the next statement of an abort_task call
abort_statement(cl, f, u_ok, uz_ok) ==
    CASE cl.pc = "check"         -> {abort_check(cl, f)}
      [] cl.pc = "ismount"       -> {abort_ismount(cl, f)}
      [] cl.pc = "fusermount_u"  -> {abort_fusermount_u(cl, f, u_ok)}
      [] cl.pc = "fusermount_uz" -> {abort_fusermount_uz(cl, f, uz_ok)}
      [] cl.pc = "rmtree"        -> abort_rmtree(cl, f)

InFlight(c) == c \in DOMAIN calls /\ calls[c].pc # "done"

\* caller c enters start_task(name) or abort_task(name)
Begin(c, op, name) ==
    /\ ~InFlight(c)
    /\ calls' = (c :> NewCall(op, Manager, name)) @@ calls
    /\ UNCHANGED <<dirs, files, mounts, active, last>>

\* caller c executes the next statement of its start_task call
StartStatement(c) ==
    /\ InFlight(c) /\ calls[c].op = "start"
    /\ \E e \in IF calls[c].pc = "check" THEN Envs ELSE {EnvOk},
          mount_ok \in IF calls[c].pc = "mount" THEN BOOLEAN ELSE {TRUE} :
         \E o \in start_statement(calls[c], fs, e, mount_ok) :
            /\ SetFs(o.fs)
            /\ calls' = [calls EXCEPT ![c] = o.call]
    /\ UNCHANGED <<active, last>>

\* caller c executes the next statement of its abort_task call
AbortStatement(c) ==
    /\ InFlight(c) /\ calls[c].op = "abort"
    /\ \E u_ok \in IF calls[c].pc = "fusermount_u" THEN BOOLEAN ELSE {TRUE},
          uz_ok \in IF calls[c].pc = "fusermount_uz" THEN BOOLEAN ELSE {TRUE} :
         \E o \in abort_statement(calls[c], fs, u_ok, uz_ok) :
            /\ SetFs(o.fs)
            /\ calls' = [calls EXCEPT ![c] = o.call]
    /\ UNCHANGED <<active, last>>

\* two callers, one call each on the same name, their statements interleaved:
\* caller1 starts the task, caller2 starts or aborts it
NextRace ==
    \/ \E c \in Callers, op \in {"start", "abort"} :
          /\ c \notin DOMAIN calls
          /\ c = "caller1" => op = "start"
          /\ Begin(c, op, RaceName)
    \/ \E c \in Callers : StartStatement(c)
    \/ \E c \in Callers : AbortStatement(c)

SpecRace == Init /\ [][NextRace]_vars

\* one caller, one call after the other, task names of any shape
NextNames ==
    \/ \E op \in {"start", "abort"}, name \in AnyNames :
          Begin("caller1", op, name)
    \/ StartStatement("caller1")
    \/ AbortStatement("caller1")

SpecNames == Init /\ [][NextNames]_vars

\* one caller, one call after the other, plain task names
NextSteps ==
    \/ \E op \in {"start", "abort"}, name \in TaskNames :
          Begin("caller1", op, name)
    \/ StartStatement("caller1")
    \/ AbortStatement("caller1")

SpecSteps == Init /\ [][NextSteps]_vars

(***************************************************************************)
(* The command line run from several working directories: cli.py builds    *)
(* its manager over --base, or over the working directory when the command *)
(* has no --base (diff, abort, list) or none is given.                     *)
(***************************************************************************)
\* the directories the command line is run over: the repository and the
\* home directory, which holds the default tasks_root
Bases == {BaseDir, HomeDir}

InitBases ==
    /\ dirs = UNION {Ancestors(b) : b \in Bases \cup {Manager.tasks_root}}
    /\ \E S \in SUBSET FileNames : \E g \in [S -> Contents] :
          files = [q \in {BaseDir \o <<h>> : h \in S} |-> g[q[Len(q)]]]
    /\ mounts = NoMounts
    /\ active = {}
    /\ last = Call("init", "api", <<>>)
    /\ calls = NoCalls

NextBases ==
    \/ \E command \in Commands \ {"list", ""}, name \in TaskNames,
          base \in Bases : Main(command, name, base)
    \/ \E command \in {"list", ""}, base \in Bases : Main(command, <<>>, base)
    \/ \E m \in DOMAIN mounts, g \in FileNames, c \in Contents :
          WriteMerged(m, g, c)
    \/ \E m \in DOMAIN mounts, g \in FileNames : UnlinkMerged(m, g)

SpecBases == InitBases /\ [][NextBases]_vars

(***************************************************************************)
(* Vocabulary of the properties                                            *)
(***************************************************************************)
TasksRoot == <<"home", ".agent_tasks">>
RootOf(name) == TasksRoot \o name
MergedOf(name) == TasksRoot \o name \o <<"merged">>
UpperOf(name) == TasksRoot \o name \o <<"upper">>
WorkOf(name) == TasksRoot \o name \o <<"work">>

\* the name, as a string, is one of the strings list_tasks() returns
ListedIn(f, name) == Len(name) = 1 /\ name[1] \in list_tasks(Manager, f)
Listed(name) == ListedIn(fs, name)

\* what a directory shows: the content of each file seen through it
View(dir) == [g \in FileNames |-> ReadFile(fs, dir \o <<g>>)]

\* the tree below a directory in the underlying file system
Tree(dir) ==
    [dirs  |-> {d \in dirs : IsPrefix(dir, d)},
     files |-> Restrict(files, {q \in DOMAIN files : IsPrefix(dir, q)})]

IsStart == last.op = "start"
Returned == last.exc = "none"

(***************************************************************************)
(* C1: a write or an unlink made through one task's merged view changes    *)
(* neither the base directory nor what any other task's merged view shows. *)
(***************************************************************************)
C1_Isolation ==
    [][last'.op \in {"write", "unlink"} =>
         /\ Tree(BaseDir)' = Tree(BaseDir)
         /\ View(BaseDir)' = View(BaseDir)
         /\ \A m \in DOMAIN mounts \ {last'.path} :
               m \in DOMAIN mounts' /\ View(m)' = View(m)]_vars

\* two tasks are active, one was just written through, and its view now
\* differs from the base and from the other task's view
C1_Witness ==
    /\ last.op = "write"
    /\ View(last.path) # View(BaseDir)
    /\ \E m \in DOMAIN mounts :
          m # last.path /\ View(m) = View(BaseDir)

(***************************************************************************)
(* C2: whenever start_task(name) returns, the returned path is             *)
(* tasks_root/name/merged, it exists and is a mount point, the upper and   *)
(* work directories exist, and name is in list_tasks().                    *)
(***************************************************************************)
C2_StartPostcondition ==
    (IsStart /\ Returned) =>
        /\ last.path = MergedOf(last.name)
        /\ exists(fs, last.path)
        /\ ismount(fs, last.path)
        /\ isdir(fs, UpperOf(last.name))
        /\ isdir(fs, WorkOf(last.name))
        /\ Listed(last.name)

C2_Witness ==
    /\ IsStart /\ Returned
    /\ last.via = "api"
    /\ Cardinality(DOMAIN mounts) = 2

(***************************************************************************)
(* C3: start_task(name) for a name whose task exists raises ValueError     *)
(* ('already exists') and changes nothing.                                 *)
(***************************************************************************)
TaskExistsIn(f, name) ==
    exists(f, RootOf(name)) /\ ismount(f, MergedOf(name))
TaskExists(name) == TaskExistsIn(fs, name)

C3_Original ==
    [][(last'.op = "start" /\ TaskExists(last'.name)) =>
         /\ last'.exc = "ValueError"
         /\ last'.msg = "already exists"
         /\ UNCHANGED <<dirs, files, mounts>>]_vars

\* C3 as amended: the prerequisite check comes first, so the call raises
\* ValueError ('already exists') when the prerequisites are met and the
\* RuntimeError of the prerequisite check when they are not; either way
\* nothing changes and the task stays listed.
C3_DuplicateStart ==
    [][(last'.op = "start" /\ TaskExists(last'.name)) =>
         /\ (last'.env = EnvOk =>
                last'.exc = "ValueError" /\ last'.msg = "already exists")
         /\ (last'.env # EnvOk => last'.exc = "RuntimeError")
         /\ UNCHANGED <<dirs, files, mounts>>
         /\ ListedIn(fs', last'.name)
         /\ TaskExistsIn(fs', last'.name)]_vars

\* a duplicate start was rejected for a task that has content in its upper
\* layer
C3_Witness ==
    /\ IsStart /\ last.exc = "ValueError" /\ last.msg = "already exists"
    /\ TaskExists(last.name)
    /\ \E g \in FileNames : UpperOf(last.name) \o <<g>> \in DOMAIN files

(***************************************************************************)
(* C4: whenever abort_task(name) returns True, merged is not mounted, the  *)
(* task root with upper, work and merged is gone, and name is not listed.  *)
(***************************************************************************)
C4_AbortPostcondition ==
    (last.op = "abort" /\ Returned) =>
        /\ ~ismount(fs, MergedOf(last.name))
        /\ ~exists(fs, RootOf(last.name))
        /\ Tree(RootOf(last.name)).dirs = {}
        /\ DOMAIN Tree(RootOf(last.name)).files = {}
        /\ ~Listed(last.name)

\* a task was aborted with the lazy unmount while another one stays active
C4_Witness ==
    /\ last.op = "abort" /\ Returned
    /\ ~last.ext.u_ok
    /\ DOMAIN mounts # {}

(***************************************************************************)
(* C5: abort_task(name) and diff_task(name) for a name without a task root *)
(* raise ValueError ('not found') and change nothing.                      *)
(***************************************************************************)
C5_NotFound ==
    [][(last'.op \in {"abort", "diff"} /\ ~exists(fs, RootOf(last'.name))) =>
         /\ last'.exc = "ValueError"
         /\ last'.msg = "not found"
         /\ UNCHANGED <<dirs, files, mounts>>
         /\ list_tasks(Manager, fs)' = list_tasks(Manager, fs)]_vars

\* abort of a name that has no task, while another task is active
C5_Witness ==
    /\ last.op = "abort" /\ last.exc = "ValueError"
    /\ ~exists(fs, RootOf(last.name))
    /\ DOMAIN mounts # {}

(***************************************************************************)
(* C6: list_tasks() returns exactly the names whose start_task succeeded   *)
(* and that were not successfully aborted since, which are exactly the     *)
(* tasks whose merged view is mounted.                                     *)
(***************************************************************************)
MountedNames ==
    {m[Len(TasksRoot) + 1] :
        m \in {x \in DOMAIN mounts :
                  IsPrefix(TasksRoot, x) /\ Len(x) = Len(TasksRoot) + 2
                  /\ x[Len(x)] = "merged"}}

C6_ListTasks ==
    /\ list_tasks(Manager, fs) = {n[1] : n \in active}
    /\ list_tasks(Manager, fs) = MountedNames
    /\ Cardinality(DOMAIN mounts) = Cardinality(active)
    /\ (last.op = "list" /\ Returned) => last.names = {n[1] : n \in active}

\* list_tasks was called while one task is active and another name is not
C6_Witness ==
    /\ last.op = "list" /\ last.via = "api"
    /\ Cardinality(last.names) = 1
    /\ Cardinality(active) = 1

(***************************************************************************)
(* C7: for an active task, diff_task(name) returns the recursive diff of   *)
(* the base and the merged view: every modification made through the       *)
(* merged view appears, the output is empty when nothing was modified, and *)
(* diff_task changes no directory or mount.                                *)
(***************************************************************************)
DiffFiles(out) == {e.file : e \in out}

C7_Original ==
    [][(last'.op = "diff" /\ TaskExists(last'.name)) =>
         /\ UNCHANGED <<dirs, files, mounts>>
         /\ last'.exc = "none"
         /\ \A g \in FileNames :
               View(MergedOf(last'.name))[g] # View(BaseDir)[g]
                   => g \in DiffFiles(last'.out)
         /\ (View(MergedOf(last'.name)) = View(BaseDir)
                => last'.out = {})]_vars

\* the content of the base's file, and the content the task's view shows,
\* read off the underlying file system; a missing file counts as empty
BaseContent(g) ==
    IF BaseDir \o <<g>> \in DOMAIN files THEN files[BaseDir \o <<g>>] ELSE ""

ShownContent(name, g) ==
    LET u == UpperOf(name) \o <<g>>
    IN  IF u \in DOMAIN files
        THEN (IF files[u] = Whiteout THEN "" ELSE files[u])
        ELSE BaseContent(g)

\* C7 as amended: diff -N compares a missing file as an empty one, so the
\* output lists exactly the files whose content differs between base and
\* merged view, a missing file counting as empty (creating or removing an
\* empty file does not appear); it is empty when no content differs, and
\* diff_task changes no directory or mount.
C7_Diff ==
    [][(last'.op = "diff" /\ TaskExists(last'.name)) =>
         /\ UNCHANGED <<dirs, files, mounts>>
         /\ last'.exc = "none"
         /\ DiffFiles(last'.out) =
               {g \in FileNames :
                   ShownContent(last'.name, g) # BaseContent(g)}
         /\ \A e \in last'.out :
               /\ e.old = BaseContent(e.file)
               /\ e.new = ShownContent(last'.name, e.file)]_vars

\* a diff that shows a modification made through the merged view
C7_Witness ==
    /\ last.op = "diff" /\ Returned
    /\ TaskExists(last.name)
    /\ last.out # {}
    /\ \E g \in FileNames : UpperOf(last.name) \o <<g>> \in DOMAIN files

(***************************************************************************)
(* C8: if the mount command fails during start_task(name), RuntimeError is *)
(* raised and the whole task root is removed: name is not listed and a     *)
(* later start_task(name) is not rejected as 'already exists'.             *)
(***************************************************************************)
C8_MountFailure ==
    [][(/\ last'.op = "start"
        /\ last'.env = EnvOk
        /\ ~exists(fs, RootOf(last'.name))
        /\ ~last'.ext.mount_ok) =>
         /\ last'.exc = "RuntimeError"
         /\ ~exists(fs', RootOf(last'.name))
         /\ {d \in dirs' : IsPrefix(RootOf(last'.name), d)} = {}
         /\ ~ListedIn(fs', last'.name)
         /\ ~ismount(fs', MergedOf(last'.name))
         /\ start_task(Manager, last'.name, fs', EnvOk, TRUE).exc = "none"
       ]_vars

\* a mount failed while another task is active
C8_Witness ==
    /\ IsStart /\ last.env = EnvOk /\ ~last.ext.mount_ok
    /\ last.exc = "RuntimeError" /\ last.msg = "Failed to mount overlay"
    /\ DOMAIN mounts # {}

(***************************************************************************)
(* C9: when the fuse-overlayfs binary or /dev/fuse is missing,             *)
(* start_task(name) raises RuntimeError before creating anything.          *)
(***************************************************************************)
C9_Prerequisites ==
    [][(last'.op = "start" /\ last'.env # EnvOk) =>
         /\ last'.exc = "RuntimeError"
         /\ UNCHANGED <<dirs, files, mounts>>
         /\ list_tasks(Manager, fs') = list_tasks(Manager, fs)]_vars

\* start of a new name with only /dev/fuse missing
C9_Witness ==
    /\ IsStart /\ last.env.fuse_overlayfs /\ ~last.env.dev_fuse
    /\ last.exc = "RuntimeError"
    /\ ~exists(fs, RootOf(last.name))

(***************************************************************************)
(* C10: for the commands start, abort, diff and list, the command line     *)
(* exits with status 1 when the manager's operation raises, and does not   *)
(* exit with status 1 when it succeeds.                                    *)
(***************************************************************************)
\* the outcome of the manager's operation, called directly
Operation(op, name, f, e, x) ==
    CASE op = "start" -> start_task(Manager, name, f, e, x.mount_ok)
      [] op = "abort" -> abort_task(Manager, name, f, x.u_ok, x.uz_ok)
      [] op = "diff"  -> diff_task(Manager, name, f)
      [] op = "list"  -> Returns(f, list_tasks(Manager, f))

C10_CliExit ==
    [][(last'.via = "cli"
        /\ last'.op \in {"start", "abort", "diff", "list"}) =>
         LET r == Operation(last'.op, last'.name, fs, last'.env, last'.ext)
         IN  /\ r.exc # "none" =>
                   last'.exit = "1" /\ last'.exc = r.exc /\ last'.msg = r.msg
             /\ r.exc = "none" => last'.exit = "0"
             /\ fs' = r.fs]_vars

\* the command line ended with status 1 on a failed abort
C10_Witness ==
    /\ last.via = "cli" /\ last.op = "abort"
    /\ last.exc = "CalledProcessError"
    /\ last.exit = "1"

(***************************************************************************)
(* C11: the command 'shell <name>', which the output of 'start' tells the  *)
(* user to run, enters an isolated shell: invoked for an active task it    *)
(* does not end in the error exit.                                         *)
(***************************************************************************)
C11_ShellCommand ==
    (last.via = "cli" /\ last.op = "shell" /\ TaskExists(last.name)) =>
        last.exit # "1"


\* caller c has finished a call of the operation
Finished(c, op) ==
    c \in DOMAIN calls /\ calls[c].op = op /\ calls[c].pc = "done"

\* caller c's start_task returned the merged path
ReturnedPath(c) == Finished(c, "start") /\ calls[c].exc = "none"

(* C12: when two callers run start_task at the same time with the same     *)
(* name, under every interleaving of their statements at most one of them  *)
(* returns a merged path, and every other caller fails with ValueError as  *)
(* for a task that already exists (a caller whose own prerequisites or     *)
(* mount failed reports that with RuntimeError).                           *)
C12_ConcurrentStart ==
    (\A c \in Callers : Finished(c, "start")) =>
        /\ Cardinality({c \in Callers : ReturnedPath(c)}) <= 1
        /\ \A c \in Callers :
              ~ReturnedPath(c) => calls[c].exc \in {"ValueError", "RuntimeError"}

FullyPresent(name) ==
    /\ {RootOf(name), UpperOf(name), WorkOf(name), MergedOf(name)} \subseteq dirs
    /\ MergedOf(name) \in DOMAIN mounts

FullyAbsent(name) ==
    /\ RootOf(name) \notin dirs
    /\ MountsBelow(fs, RootOf(name)) = {}

(* C13: under every interleaving of one start_task(name) and one           *)
(* abort_task(name) on the same name, once both calls have finished the    *)
(* task is either fully present (root, upper, work and merged exist and    *)
(* merged is mounted) or fully absent (no task root, nothing mounted).     *)
C13_StartAbort ==
    (Finished("caller1", "start") /\ Finished("caller2", "abort")) =>
        FullyPresent(RaceName) \/ FullyAbsent(RaceName)

\* caller c's abort_task executes its rmtree in this step
AbortRemoves(c) ==
    /\ InFlight(c) /\ calls[c].op = "abort" /\ calls[c].pc = "rmtree"
    /\ calls'[c].pc = "done"

\* the directories and files that this step removes
Removed == (dirs \ dirs') \cup (DOMAIN files \ DOMAIN files')

(* C14: for every task name string (the empty string, '..', an absolute    *)
(* path, ...) the task root computed from the name is a direct child of    *)
(* tasks_root, so abort_task(name) removes only the directory tree of that *)
(* one task: nothing outside it is removed and every overlay mounted       *)
(* outside it stays mounted.                                               *)
C14_AnyName ==
    [][\A c \in Callers : AbortRemoves(c) =>
          LET root == PathsOf(calls[c]).root
          IN  /\ IsPrefix(TasksRoot, root) /\ Len(root) = Len(TasksRoot) + 1
              /\ \A q \in Removed : IsPrefix(root, q)
              /\ \A m \in DOMAIN mounts :
                    ~IsPrefix(root, m) =>
                        m \in DOMAIN mounts' /\ mounts'[m] = mounts[m]]_vars

\* the last step was a diff of a mounted task that returned its output
DiffReturned ==
    /\ last.op = "diff" /\ last.exc = "none"
    /\ MergedOf(last.name) \in DOMAIN mounts

\* nothing was written or removed through the task's merged view
Unmodified(name) ==
    \A q \in DOMAIN files : ~IsPrefix(UpperOf(name), q)

(* C15: diff_task(name) compares the task's merged view against the base   *)
(* directory the task's overlay was mounted over at start, whichever       *)
(* manager or command line invocation (working directory) asks for the     *)
(* diff; hence the diff of a task with no modifications is empty.          *)
C15_DiffBase ==
    DiffReturned =>
        /\ last.out = diff_Nur(fs, mounts[MergedOf(last.name)].lowerdir,
                               MergedOf(last.name))
        /\ Unmodified(last.name) => last.out = {}

\* caller c's abort_task executes a statement in this step
AbortStep(c) ==
    InFlight(c) /\ calls[c].op = "abort" /\ calls'[c] # calls[c]

(* C16: abort_task removes the task's directories only after the merged    *)
(* view is no longer mounted: if merged is a mount point the normal        *)
(* unmount is tried first and the lazy unmount only after it failed, and   *)
(* if both fail abort_task raises the subprocess error without removing    *)
(* anything, leaving the task mounted and listed.                          *)
C16_AbortOrder ==
    [][\A c \in Callers : AbortStep(c) =>
          LET cl == calls[c]
              merged == PathsOf(cl).merged
          IN  /\ cl.pc = "rmtree" => ~ismount(fs, merged)
              /\ cl.pc # "rmtree" => Removed = {}
              /\ calls'[c].tried # cl.tried =>
                    /\ ismount(fs, merged)
                    /\ calls'[c].tried \in {<<"-u">>, <<"-u", "-uz">>}
              /\ (cl.pc = "fusermount_uz" /\ ismount(fs', merged)) =>
                    /\ calls'[c].pc = "done"
                    /\ calls'[c].exc = "CalledProcessError"
                    /\ fs' = fs
                    /\ ListedIn(fs', cl.name)]_vars

\* both unmounts of an abort_task failed
C16_Witness ==
    /\ Finished("caller1", "abort")
    /\ calls["caller1"].exc = "CalledProcessError"
    /\ calls["caller1"].tried = <<"-u", "-uz">>
    /\ TaskExists(calls["caller1"].name)

\* the directories and files of f below directory b
TreeBelow(f, b) ==
    [dirs  |-> {d \in f.dirs : IsPrefix(b, d)},
     files |-> Restrict(f.files, {q \in DOMAIN f.files : IsPrefix(b, q)})]

(* C17: for every choice of base_dir, with the default tasks_root under    *)
(* the home directory, no operation of a manager (its construction,        *)
(* start_task, abort_task, diff_task, list_tasks) creates, modifies or     *)
(* removes a file or directory under its base_dir.                         *)
C17_BaseUntouched ==
    [][last'.via = "cli" =>
          TreeBelow(fs', last'.base) = TreeBelow(fs, last'.base)]_vars
=============================================================================
